---------------------------- MODULE Spec2Model ----------------------------
(***************************************************************************)
(* The approval / claim / referral tracking API of the SHIB airdrop        *)
(* backend: src/server.js (the Railway variant) and the server embedded in *)
(* src/unnamed/part_000 (the Render variant).                              *)
(*                                                                         *)
(* Every request is served by one handler.  A handler runs synchronously   *)
(* up to its next `await`; each await of a database operation is one step  *)
(* of the model, so the handlers of concurrent requests interleave at      *)
(* exactly the places where the event loop lets them interleave.           *)
(*                                                                         *)
(* Strings that the code takes apart (wallet addresses, search terms) are  *)
(* sequences of one-character strings; strings that are only stored and    *)
(* compared (balances, tiers, keys) are strings.  `undefined` and the      *)
(* empty string are both falsy in every test the handlers make on a body   *)
(* field, and are modelled by the empty string / empty sequence.           *)
(***************************************************************************)
EXTENDS Integers, Sequences, FiniteSets, TLC

(***************************************************************************)
(* Bounds of the model.                                                    *)
(***************************************************************************)
MaxRequests == 1       \* requests made in one behaviour, any route
MaxWrites == 2         \* requests made in one behaviour of a few routes
MaxUpdates == 3        \* requests made in one behaviour of the settings routes
MaxInFlight == 2       \* requests being served at the same time
MaxFaults == 1         \* database operations that fail unexpectedly
MaxFlips == 1          \* changes of the connection's readyState

\* the requests, numbered in the order of their arrival
MaxProcs ==
    LET m == IF MaxWrites > MaxRequests THEN MaxWrites ELSE MaxRequests
    IN  IF MaxUpdates > m THEN MaxUpdates ELSE m

Procs == 1..MaxProcs

(***************************************************************************)
(* Program constants.                                                      *)
(***************************************************************************)
DefaultWallet == <<"0", "x", "C">>   \* "0xCcf0...f975", shortened
ADMIN_KEY == "admin123"
DefaultPage == 1
DefaultLimit == 50
ZeroAddress == <<"0", "x", "0">>     \* "0x000...000", shortened

(***************************************************************************)
(* Strings as sequences of characters.                                     *)
(***************************************************************************)
LowerChar(c) ==
    CASE c = "A" -> "a"
      [] c = "B" -> "b"
      [] c = "C" -> "c"
      [] c = "X" -> "x"
      [] OTHER -> c

\* a conversion that leaves the letters as they are
toLowerCaseAsSent(s) == s

toLowerCase(s) == [i \in DOMAIN s |-> LowerChar(s[i])]

startsWith0x(s) == Len(s) >= 2 /\ s[1] = "0" /\ s[2] = "x"

\* A string is falsy exactly when it is empty (or undefined, modelled alike).
Truthy(s) == s # ""

\* a test that takes every value for a present one
TruthySeqAlways(s) == TRUE

\* the same for a string held as a sequence of characters
TruthySeq(s) == Len(s) > 0

\* a || b on strings
OrElse(a, b) == IF Truthy(a) THEN a ELSE b

\* { $regex: search, $options: 'i' }: search occurs in s, letter case ignored
RegexMatchI(s, search) ==
    \E i \in 0..(Len(s) - Len(search)) :
        \A j \in 1..Len(search) :
            LowerChar(s[i + j]) = LowerChar(search[j])

(***************************************************************************)
(* State.                                                                  *)
(***************************************************************************)
VARIABLES
    variant,     \* "railway" (src/server.js) or "render" (src/unnamed/part_000)
    connected,   \* mongoose.connection.readyState === 1
    users,       \* the User collection, in insertion order
    claims,      \* the Claim collection
    referrals,   \* the Referral collection
    settings,    \* the Settings collection
    req,         \* per request slot: the request, the handler's position and locals
    budget,      \* requests the behaviour makes in all
    started,     \* requests started so far
    faults,      \* unexpected database failures so far
    flips,       \* connection state changes so far
    lastUpdate,  \* history: the address the latest successful
                 \* update-approval-wallet stored (<<>> when there was none)
                 \* and whether it found a Settings document to modify
    boot         \* the process from its start: the phase, the next top-level
                 \* statement, the bindings initialized, the routes
                 \* registered, what initializeSettings logged

vars == <<variant, connected, users, claims, referrals, settings, req,
          budget, started, faults, flips, lastUpdate, boot>>

\* the process before its first statement
NoBoot ==
    [phase |-> "loading", next |-> 1, declared |-> {}, routes |-> {}, uri |-> TRUE,
     logged |-> {}]

\* what no handler changes
env == <<variant, budget, lastUpdate, boot>>

store == <<users, claims, referrals, settings>>

(***************************************************************************)
(* Documents.                                                              *)
(***************************************************************************)
\* userSchema: walletAddress is unique; referralCount defaults to 0 and
\* approvalGiven to false.  The two timestamps are left out: no handler
\* decides anything on them beyond the sort order of a listing.
UserDoc(w, u, a, t, given, refs) ==
    [walletAddress |-> w, usdtBalance |-> u, airdropAmount |-> a, tier |-> t,
     approvalGiven |-> given, referralCount |-> refs]

NoUser == UserDoc(<<>>, "", "", "", FALSE, 0)

\* claimSchema: walletAddress and referrer carry the lowercase setter
ClaimDoc(w, t, r, tx) ==
    [walletAddress |-> toLowerCase(w), tier |-> t, referrer |-> toLowerCase(r),
     txHash |-> tx, status |-> "claimed"]

\* referralSchema: referrer and referred carry the lowercase setter
ReferralDoc(r, d) == [referrer |-> toLowerCase(r), referred |-> toLowerCase(d)]

\* settingsSchema: approvalWalletAddress defaults to the built-in wallet
SettingsDoc(a) == [approvalWalletAddress |-> a]

\* positions of the documents of a collection that satisfy a filter
Matching(coll, Pred(_)) == {i \in DOMAIN coll : Pred(coll[i])}

\* Model.findOne(filter): the first matching document, 0 for null
FindOne(coll, Pred(_)) ==
    IF Matching(coll, Pred) = {} THEN 0
    ELSE CHOOSE i \in Matching(coll, Pred) : \A j \in Matching(coll, Pred) : i <= j

(***************************************************************************)
(* Requests and responses.                                                 *)
(***************************************************************************)
NoBody ==
    [walletAddress |-> <<>>, usdtBalance |-> "", airdropAmount |-> "", tier |-> "",
     referrer |-> <<>>, referred |-> <<>>, txHash |-> "",
     newWalletAddress |-> <<>>, adminKey |-> "",
     headerKey |-> "", queryKey |-> "",
     page |-> <<>>, limit |-> <<>>, search |-> <<>>,
     minAmount |-> <<>>, maxAmount |-> <<>>]

\* res.status(s).json({...}): the keys of the JSON object and the values the
\* properties below read
NoResp ==
    [status |-> 0, keys |-> {}, success |-> FALSE, message |-> "",
     offline |-> FALSE, alreadyClaimed |-> FALSE, hasClaimed |-> FALSE,
     address |-> <<>>, dataLen |-> 0, total |-> 0,
     pages |-> 0, pagesFinite |-> TRUE, data |-> {}]

\* a body that carries the message alone
JsonMessageOnly(status, success, message) ==
    [NoResp EXCEPT !.status = status, !.keys = {"message"},
                   !.success = success, !.message = message]

Json(status, success, message) ==
    [NoResp EXCEPT !.status = status, !.keys = {"success", "message"},
                   !.success = success, !.message = message]

NoUpdate == [address |-> <<>>, found |-> FALSE]

NoReq ==
    [route |-> "none", pc |-> "idle", body |-> NoBody,
     doc |-> 0, docAt |-> NoUser, resp |-> NoResp,
     \* history of the request, read by the properties only
     up |-> TRUE, checkedDb |-> "no", wrote |-> 0, threw |-> "none", ranHandler |-> FALSE,
     after |-> {}, read |-> NoUser, pre |-> NoUser, post |-> NoUser,
     seen |-> NoUpdate, expect |-> NoUpdate,
     \* the key of the upsert in flight, and whether it existed when the
     \* command was sent
     key |-> <<>>, sawKey |-> FALSE]

\* the requests already answered
Answered == {q \in Procs : req[q].pc = "done"}

Busy(p) == req[p].pc \notin {"idle", "done"}

\* request p arrives: it is the next one, and the server has room for it
CanStart(p) ==
    /\ boot.phase = "listening"
    /\ p = started + 1
    /\ started < budget
    /\ Cardinality({q \in Procs : Busy(q)}) < MaxInFlight

\* the requests that were answered before request p arrived
Earlier(p) == {q \in Procs : q < p /\ q \in req[p].after}

\* the handler answers; its locals are dead from here on
Reply(r, resp) ==
    [r EXCEPT !.pc = "done", !.resp = resp, !.doc = 0, !.docAt = NoUser,
              !.sawKey = FALSE]

(***************************************************************************)
(* Outcome of an awaited database operation.  It completes normally only   *)
(* while the connection is up (mongoose buffers the command until then);   *)
(* it rejects when the connection is down (the buffering times out) or     *)
(* when the server or the network fails unexpectedly.                      *)
(***************************************************************************)
OpOk == connected

\* a handler without the guard
ReadyStateIgnored == FALSE

\* mongoose.connection.readyState !== 1, the guard of the handlers of
\* src/server.js; the Render variant has no such guard
ReadyStateNot1 == variant = "railway" /\ ~connected

OpFails == ~connected \/ faults < MaxFaults

CountFault == faults' = IF connected THEN faults + 1 ELSE faults

\* what the rejected await throws: the buffering timeout of a connection
\* that is down, or an unexpected error
Failure == IF connected THEN "error" ELSE "unavailable"

(***************************************************************************)
(* Inputs.                                                                 *)
(***************************************************************************)
WalletA == <<"0", "x", "A">>
Walleta == <<"0", "x", "a">>
WalletB == <<"0", "x", "b">>

\* req.body.walletAddress: absent, or one wallet in two spellings, or another
WalletInputs == {<<>>, WalletA, Walleta}

\* usdtBalance, airdropAmount, tier as sent: complete, complete and different,
\* and partly empty
ValueInputs ==
    {[usdtBalance |-> "5", airdropAmount |-> "50", tier |-> "bronze"],
     [usdtBalance |-> "10", airdropAmount |-> "100", tier |-> "silver"],
     [usdtBalance |-> "", airdropAmount |-> "100", tier |-> ""]}

\* the bodies of POST /api/save-approval; what a body without an address
\* carries besides is never read
ApprovalInputs ==
    {NoBody} \cup
    {[NoBody EXCEPT !.walletAddress = w, !.usdtBalance = v.usdtBalance,
                    !.airdropAmount = v.airdropAmount, !.tier = v.tier] :
        w \in WalletInputs \ {<<>>}, v \in ValueInputs}

\* the bodies of POST /api/save-claim: without a tier (a required path of
\* claimSchema), with one, and with a referrer
ClaimInputs ==
    {NoBody} \cup
    {[NoBody EXCEPT !.walletAddress = v[1], !.tier = v[2], !.referrer = v[3],
                    !.usdtBalance = "5", !.airdropAmount = "50"] :
        v \in {<<WalletA, "", <<>> >>, <<WalletA, "gold", <<>> >>,
               <<Walleta, "gold", <<>> >>, <<WalletA, "gold", WalletB>>}}

\* the bodies of POST /api/update-approval-wallet
UpdateInputs ==
    {[NoBody EXCEPT !.adminKey = k] : k \in {"", "wrong"}} \cup
    {[NoBody EXCEPT !.adminKey = "wrong", !.newWalletAddress = WalletA]} \cup
    {[NoBody EXCEPT !.adminKey = ADMIN_KEY, !.newWalletAddress = a] :
        a \in {<<>>, <<"A">>, WalletA, WalletB}}

\* the admin-key header and the adminKey query parameter of an admin request
KeyInputs ==
    {<<"", "">>, <<"wrong", "">>, <<"wrong", ADMIN_KEY>>,
     <<ADMIN_KEY, "">>, <<"", ADMIN_KEY>>}

\* minAmount and maxAmount of /api/admin/approvals/filter, the text of a
\* number with one digit per element, <<>> for a parameter left out
FilterInputs ==
    {<< <<>>, <<>> >>, << <<0, 5>>, <<1, 0>> >>}

\* page, limit and search of a listing, <<>> for a parameter left out
ListInputs ==
    {<< <<>>, <<>>, <<>> >>, << <<>>, <<0>>, <<>> >>,
     << <<2>>, <<1>>, <<>> >>, << <<0>>, <<2>>, <<>> >>,
     << <<>>, <<1>>, <<"B">> >>}

(***************************************************************************)
(* POST /api/save-approval                                                 *)
(***************************************************************************)
\* a catch block that reports every error as a success
SaveApprovalCatchAll(code) == Json(200, TRUE, "Approval already exists for this wallet")

\* the catch block of the handler; code is "E11000" for a duplicate key
SaveApprovalCatch(code) ==
    IF variant = "railway" /\ code = "E11000"
    THEN Json(200, TRUE, "Approval already exists for this wallet")
    ELSE Json(500, FALSE, "Internal server error")

\* User.findOne({ walletAddress }): the String path has no setter, the
\* address is compared as sent
UserByAddress(w) == FindOne(users, LAMBDA u : u.walletAddress = w)

\* the unique index on walletAddress rejects a second document of the same key
UserKeyTaken(w) == \E i \in DOMAIN users : users[i].walletAddress = w

\* a handler that assigns the body's values whether or not they are empty
ApprovalUpdateNoFallback(cur, read, b) ==
    [cur EXCEPT !.usdtBalance = b.usdtBalance, !.airdropAmount = b.airdropAmount,
                !.tier = b.tier, !.approvalGiven = TRUE]

\* user.save() of a document read earlier: mongoose writes the paths whose
\* value the handler changed, to the document of that _id
ApprovalUpdate(cur, read, b) ==
    [cur EXCEPT
       !.usdtBalance = IF OrElse(b.usdtBalance, read.usdtBalance) # read.usdtBalance
                       THEN OrElse(b.usdtBalance, read.usdtBalance) ELSE @,
       !.airdropAmount = IF OrElse(b.airdropAmount, read.airdropAmount) # read.airdropAmount
                         THEN OrElse(b.airdropAmount, read.airdropAmount) ELSE @,
       !.tier = IF OrElse(b.tier, read.tier) # read.tier
                THEN OrElse(b.tier, read.tier) ELSE @,
       !.approvalGiven = TRUE]

\* new User({ walletAddress, usdtBalance, airdropAmount, tier, approvalGiven: true })
ApprovalInsert(b) ==
    UserDoc(b.walletAddress, b.usdtBalance, b.airdropAmount, b.tier, TRUE, 0)

\* the request arrives; the handler runs up to its first await
SaveApprovalEntry(p) ==
    /\ CanStart(p)
    /\ \E b \in ApprovalInputs :
         LET w == b.walletAddress
             r == [NoReq EXCEPT !.route = "save-approval", !.body = b,
                                !.after = Answered, !.up = connected]
         IN  req' = [req EXCEPT ![p] =
                 IF ~TruthySeq(w)
                 THEN Reply(r, Json(400, FALSE, "Wallet address is required"))
                 ELSE IF ReadyStateNot1
                 THEN Reply([r EXCEPT !.checkedDb = "down"],
                            [Json(200, TRUE, "Approval recorded (offline mode)")
                                EXCEPT !.keys = @ \cup {"offline"}, !.offline = TRUE])
                 ELSE [r EXCEPT !.pc = "findOne",
                                !.checkedDb = IF variant = "railway" THEN "up" ELSE "no"]]
    /\ started' = started + 1
    /\ UNCHANGED <<env, connected, store, faults, flips>>

\* await User.findOne({ walletAddress }) returns
SaveApprovalFindOne(p) ==
    /\ req[p].route = "save-approval" /\ req[p].pc = "findOne"
    /\ OpOk
    /\ LET i == UserByAddress(req[p].body.walletAddress)
       IN  req' = [req EXCEPT ![p].pc = "save", ![p].doc = i,
                              ![p].docAt = IF i = 0 THEN NoUser ELSE users[i]]
    /\ UNCHANGED <<env, connected, store, started, faults, flips>>

\* await user.save() returns: an update of the document read, or an insert
SaveApprovalSave(p) ==
    /\ req[p].route = "save-approval" /\ req[p].pc = "save"
    /\ OpOk
    /\ LET r == req[p]
           b == r.body
       IN  IF r.doc # 0
           THEN /\ users' = [users EXCEPT ![r.doc] = ApprovalUpdate(@, r.docAt, b)]
                /\ req' = [req EXCEPT ![p] =
                       Reply([r EXCEPT !.wrote = @ + 1, !.read = r.docAt,
                                       !.pre = users[r.doc],
                                       !.post = ApprovalUpdate(users[r.doc], r.docAt, b)],
                             Json(200, TRUE, "Approval saved successfully"))]
           ELSE IF UserKeyTaken(b.walletAddress)
           THEN /\ users' = users
                /\ req' = [req EXCEPT ![p] =
                       Reply([r EXCEPT !.threw = "E11000"], SaveApprovalCatch("E11000"))]
           ELSE /\ users' = Append(users, ApprovalInsert(b))
                /\ req' = [req EXCEPT ![p] =
                       Reply([r EXCEPT !.wrote = @ + 1, !.post = ApprovalInsert(b)],
                             Json(200, TRUE, "Approval saved successfully"))]
    /\ UNCHANGED <<env, connected, claims, referrals, settings, started, faults, flips>>

\* either await rejects: the catch block answers
SaveApprovalThrows(p) ==
    /\ req[p].route = "save-approval" /\ req[p].pc \in {"findOne", "save"}
    /\ OpFails
    /\ CountFault
    /\ req' = [req EXCEPT ![p] =
           Reply([req[p] EXCEPT !.threw = Failure], SaveApprovalCatch("error"))]
    /\ UNCHANGED <<env, connected, store, started, flips>>

(***************************************************************************)
(* The connection.                                                         *)
(***************************************************************************)
\* the connection to the database drops (readyState leaves 1)
Disconnect ==
    /\ connected /\ flips < MaxFlips
    /\ connected' = FALSE
    /\ flips' = flips + 1
    /\ UNCHANGED <<env, store, req, started, faults>>

\* the driver reconnects (readyState is 1 again)
Reconnect ==
    /\ ~connected /\ flips < MaxFlips
    /\ connected' = TRUE
    /\ flips' = flips + 1
    /\ UNCHANGED <<env, store, req, started, faults>>


(***************************************************************************)
(* An upsert (findOneAndUpdate with upsert: true) on the unique key        *)
(* walletAddress.  The server looks the key up and inserts when it finds   *)
(* none; when another request inserted the key since the command was sent  *)
(* the insert meets the unique index, and the server either retries the    *)
(* command as an update or rejects it with E11000.                         *)
(***************************************************************************)
UpsertMayCollide(r) == ~r.sawKey /\ UserKeyTaken(toLowerCase(r.key))

\* the User collection after the upsert of key w; Change is the update
\* applied to the document, Fresh the document inserted when there is none
Upserted(w, Change(_), fresh) ==
    IF UserKeyTaken(w)
    THEN [users EXCEPT ![UserByAddress(w)] = Change(@)]
    ELSE Append(users, fresh)

(***************************************************************************)
(* POST /api/save-claim (src/server.js only)                               *)
(***************************************************************************)
\* a filter that is compared as sent
ClaimQueryCastNone(w) == w

\* Claim.findOne({ walletAddress }): mongoose casts the filter with the
\* path's setters, so the address is lower-cased before it is compared
ClaimQueryCast(w) == toLowerCase(w)

ClaimByAddress(w) ==
    FindOne(claims, LAMBDA c : c.walletAddress = ClaimQueryCast(w))

\* referrer && referrer !== "0x000..." ? referrer.toLowerCase() : null
ClaimReferrer(r) == IF TruthySeq(r) /\ r # ZeroAddress THEN toLowerCase(r) ELSE <<>>

\* the required paths of claimSchema that the handler can leave empty
ClaimValid(b) == Truthy(b.tier)

\* the catch block of the handler
SaveClaimCatch(code) ==
    IF code = "E11000"
    THEN Json(200, TRUE, "Claim already exists for this wallet")
    ELSE Json(500, FALSE, "Internal server error")

\* the filter-only update of save-claim: `claimed` and `claimedAt` are no
\* paths of userSchema, strict mode drops them
ClaimedChange(u) == u

SaveClaimEntry(p) ==
    /\ CanStart(p)
    /\ \E b \in ClaimInputs :
         LET w == b.walletAddress
             r == [NoReq EXCEPT !.route = "save-claim", !.body = b, !.after = Answered, !.up = connected,
                                !.key = w]
         IN  req' = [req EXCEPT ![p] =
                 IF ~TruthySeq(w)
                 THEN Reply(r, Json(400, FALSE, "Wallet address is required"))
                 ELSE IF ReadyStateNot1
                 THEN Reply([r EXCEPT !.checkedDb = "down"],
                            [Json(200, TRUE, "Claim recorded (offline mode)")
                                EXCEPT !.keys = @ \cup {"offline"}, !.offline = TRUE])
                 ELSE [r EXCEPT !.pc = "findOne", !.checkedDb = "up"]]
    /\ started' = started + 1
    /\ UNCHANGED <<env, connected, store, faults, flips>>

\* await Claim.findOne({ walletAddress }) returns
SaveClaimFindOne(p) ==
    /\ req[p].route = "save-claim" /\ req[p].pc = "findOne"
    /\ OpOk
    /\ LET r == req[p]
       IN  req' = [req EXCEPT ![p] =
               IF ClaimByAddress(r.body.walletAddress) # 0
               THEN Reply(r, [Json(200, TRUE, "Claim already exists for this wallet")
                                 EXCEPT !.keys = @ \cup {"alreadyClaimed"},
                                        !.alreadyClaimed = TRUE])
               ELSE [r EXCEPT !.pc = "save"]]
    /\ UNCHANGED <<env, connected, store, started, faults, flips>>

\* await claim.save() returns: validation, then the insert
SaveClaimSave(p) ==
    /\ req[p].route = "save-claim" /\ req[p].pc = "save"
    /\ LET r == req[p]
           b == r.body
       IN  IF ~ClaimValid(b)
           THEN /\ claims' = claims
                /\ req' = [req EXCEPT ![p] =
                       Reply([r EXCEPT !.threw = "validation"], SaveClaimCatch("validation"))]
           ELSE /\ OpOk
                /\ claims' = Append(claims,
                       ClaimDoc(toLowerCase(b.walletAddress), b.tier,
                                ClaimReferrer(b.referrer), OrElse(b.txHash, "pending")))
                /\ req' = [req EXCEPT ![p] =
                       [r EXCEPT !.pc = "updateUser", !.wrote = @ + 1,
                                 !.sawKey = UserKeyTaken(toLowerCase(b.walletAddress))]]
    /\ UNCHANGED <<env, connected, users, referrals, settings, started, faults, flips>>

\* await User.findOneAndUpdate({ walletAddress: lower }, ..., { upsert: true }) returns
SaveClaimUpdateUser(p) ==
    /\ req[p].route = "save-claim" /\ req[p].pc = "updateUser"
    /\ OpOk
    /\ LET r == req[p]
           w == toLowerCase(r.body.walletAddress)
       IN  /\ users' = Upserted(w, ClaimedChange, UserDoc(w, "", "", "", FALSE, 0))
           /\ req' = [req EXCEPT ![p] =
                  Reply([r EXCEPT !.wrote = IF users' # users THEN @ + 1 ELSE @],
                        [Json(200, TRUE, "Claim saved successfully")
                            EXCEPT !.keys = @ \cup {"claimId"}])]
    /\ UNCHANGED <<env, connected, claims, referrals, settings, started, faults, flips>>

\* the upsert loses the race for the key and is rejected with E11000
SaveClaimUpsertRejected(p) ==
    /\ req[p].route = "save-claim" /\ req[p].pc = "updateUser"
    /\ OpOk
    /\ UpsertMayCollide(req[p])
    /\ req' = [req EXCEPT ![p] =
           Reply([req[p] EXCEPT !.threw = "E11000"], SaveClaimCatch("E11000"))]
    /\ UNCHANGED <<env, connected, store, started, faults, flips>>

\* an await rejects unexpectedly: the catch block answers
SaveClaimThrows(p) ==
    /\ req[p].route = "save-claim" /\ req[p].pc \in {"findOne", "save", "updateUser"}
    /\ req[p].pc = "save" => ClaimValid(req[p].body)
    /\ OpFails
    /\ CountFault
    /\ req' = [req EXCEPT ![p] =
           Reply([req[p] EXCEPT !.threw = Failure], SaveClaimCatch("error"))]
    /\ UNCHANGED <<env, connected, store, started, flips>>

(***************************************************************************)
(* GET /api/claim-status/:walletAddress (src/server.js only)               *)
(***************************************************************************)
\* a route parameter is never empty: the 400 branch cannot be taken
ClaimStatusEntry(p) ==
    /\ CanStart(p)
    /\ \E w \in WalletInputs \ {<<>>} :
         LET r == [NoReq EXCEPT !.route = "claim-status", !.after = Answered, !.up = connected,
                                !.body = [NoBody EXCEPT !.walletAddress = w]]
         IN  req' = [req EXCEPT ![p] =
                 IF ReadyStateNot1
                 THEN Reply([r EXCEPT !.checkedDb = "down"],
                            [Json(200, TRUE, "Database offline")
                                EXCEPT !.keys = @ \cup {"hasClaimed"}])
                 ELSE [r EXCEPT !.pc = "findOne", !.checkedDb = "up"]]
    /\ started' = started + 1
    /\ UNCHANGED <<env, connected, store, faults, flips>>

\* await Claim.findOne({ walletAddress: walletAddress.toLowerCase() }) returns
ClaimStatusFindOne(p) ==
    /\ req[p].route = "claim-status" /\ req[p].pc = "findOne"
    /\ OpOk
    /\ LET found == ClaimByAddress(toLowerCase(req[p].body.walletAddress)) # 0
       IN  req' = [req EXCEPT ![p] =
               Reply(req[p], [NoResp EXCEPT !.status = 200, !.success = TRUE,
                                 !.keys = {"success", "hasClaimed", "claimData"},
                                 !.hasClaimed = found])]
    /\ UNCHANGED <<env, connected, store, started, faults, flips>>

\* the await rejects: the catch block answers with a success
ClaimStatusThrows(p) ==
    /\ req[p].route = "claim-status" /\ req[p].pc = "findOne"
    /\ OpFails
    /\ CountFault
    /\ req' = [req EXCEPT ![p] =
           Reply([req[p] EXCEPT !.threw = Failure],
                 [Json(200, TRUE, "Error checking claim status")
                     EXCEPT !.keys = @ \cup {"hasClaimed"}])]
    /\ UNCHANGED <<env, connected, store, started, flips>>


(***************************************************************************)
(* POST /api/save-referral (src/server.js only)                            *)
(***************************************************************************)
\* { $inc: { referralCount: 1 } }
ReferralChange(u) == [u EXCEPT !.referralCount = @ + 1]

SaveReferralEntry(p) ==
    /\ CanStart(p)
    /\ \E referrer \in WalletInputs, referred \in {<<>>, WalletB} :
         LET b == [NoBody EXCEPT !.referrer = referrer, !.referred = referred]
             r == [NoReq EXCEPT !.route = "save-referral", !.body = b,
                                !.after = Answered, !.up = connected, !.key = referrer]
         IN  req' = [req EXCEPT ![p] =
                 IF ~TruthySeq(referrer) \/ ~TruthySeq(referred)
                 THEN Reply(r, Json(400, FALSE,
                                    "Referrer and referred addresses are required"))
                 ELSE IF ReadyStateNot1
                 THEN Reply([r EXCEPT !.checkedDb = "down"],
                            [Json(200, TRUE, "Referral recorded (offline mode)")
                                EXCEPT !.keys = @ \cup {"offline"}, !.offline = TRUE])
                 ELSE [r EXCEPT !.pc = "save", !.checkedDb = "up"]]
    /\ started' = started + 1
    /\ UNCHANGED <<env, connected, store, faults, flips>>

\* await referral.save() returns
SaveReferralSave(p) ==
    /\ req[p].route = "save-referral" /\ req[p].pc = "save"
    /\ OpOk
    /\ LET r == req[p]
       IN  /\ referrals' = Append(referrals,
                  ReferralDoc(toLowerCase(r.body.referrer), toLowerCase(r.body.referred)))
           /\ req' = [req EXCEPT ![p] =
                  [r EXCEPT !.pc = "updateUser", !.wrote = @ + 1,
                            !.sawKey = UserKeyTaken(toLowerCase(r.body.referrer))]]
    /\ UNCHANGED <<env, connected, users, claims, settings, started, faults, flips>>

\* await User.findOneAndUpdate({ walletAddress: lower }, { $inc }, { upsert: true })
SaveReferralUpdateUser(p) ==
    /\ req[p].route = "save-referral" /\ req[p].pc = "updateUser"
    /\ OpOk
    /\ LET r == req[p]
           w == toLowerCase(r.body.referrer)
       IN  /\ users' = Upserted(w, ReferralChange, UserDoc(w, "", "", "", FALSE, 1))
           /\ req' = [req EXCEPT ![p] =
                  Reply([r EXCEPT !.wrote = @ + 1],
                        [Json(200, TRUE, "Referral saved successfully")
                            EXCEPT !.keys = @ \cup {"referralId"}])]
    /\ UNCHANGED <<env, connected, claims, referrals, settings, started, faults, flips>>

\* an await rejects (the upsert losing the race for the key included): the
\* catch block answers 500 whatever the error
SaveReferralThrows(p) ==
    /\ req[p].route = "save-referral" /\ req[p].pc \in {"save", "updateUser"}
    /\ \/ OpFails /\ CountFault
          /\ req' = [req EXCEPT ![p] =
                 Reply([req[p] EXCEPT !.threw = Failure],
                       Json(500, FALSE, "Internal server error"))]
       \/ OpOk /\ req[p].pc = "updateUser" /\ UpsertMayCollide(req[p])
          /\ faults' = faults
          /\ req' = [req EXCEPT ![p] =
                 Reply([req[p] EXCEPT !.threw = "E11000"],
                       Json(500, FALSE, "Internal server error"))]
    /\ UNCHANGED <<env, connected, store, started, flips>>

(***************************************************************************)
(* GET /api/approval-wallet                                                *)
(***************************************************************************)
\* settings?.approvalWalletAddress || "0xCcf0..."; Settings.findOne() has
\* no filter and returns the first document
ReadApprovalWallet ==
    IF settings = <<>> THEN DefaultWallet
    ELSE IF TruthySeq(settings[1].approvalWalletAddress)
    THEN settings[1].approvalWalletAddress
    ELSE DefaultWallet

WalletJson(a) ==
    [NoResp EXCEPT !.status = 200, !.success = TRUE,
                   !.keys = {"success", "approvalWalletAddress"}, !.address = a]

ApprovalWalletEntry(p) ==
    /\ CanStart(p)
    /\ LET r == [NoReq EXCEPT !.route = "approval-wallet", !.after = Answered,
                              !.up = connected, !.seen = lastUpdate]
       IN  req' = [req EXCEPT ![p] =
               IF ReadyStateNot1
               THEN Reply([r EXCEPT !.checkedDb = "down", !.expect = lastUpdate],
                          WalletJson(DefaultWallet))
               ELSE [r EXCEPT !.pc = "findOne",
                              !.checkedDb = IF variant = "railway" THEN "up" ELSE "no"]]
    /\ started' = started + 1
    /\ UNCHANGED <<env, connected, store, faults, flips>>

\* await Settings.findOne() returns
ApprovalWalletFindOne(p) ==
    /\ req[p].route = "approval-wallet" /\ req[p].pc = "findOne"
    /\ OpOk
    /\ req' = [req EXCEPT ![p] =
           Reply([req[p] EXCEPT !.expect = lastUpdate], WalletJson(ReadApprovalWallet))]
    /\ UNCHANGED <<env, connected, store, started, faults, flips>>

\* the await rejects
ApprovalWalletThrows(p) ==
    /\ req[p].route = "approval-wallet" /\ req[p].pc = "findOne"
    /\ OpFails
    /\ CountFault
    /\ req' = [req EXCEPT ![p] =
           Reply([req[p] EXCEPT !.threw = Failure, !.expect = lastUpdate],
                 IF variant = "railway" THEN WalletJson(DefaultWallet)
                 ELSE Json(500, FALSE, "Internal server error"))]
    /\ UNCHANGED <<env, connected, store, started, flips>>

(***************************************************************************)
(* POST /api/update-approval-wallet                                        *)
(***************************************************************************)
UpdateWalletEntry(p) ==
    /\ CanStart(p)
    /\ \E b \in UpdateInputs :
         LET k == b.adminKey
             a == b.newWalletAddress
             r == [NoReq EXCEPT !.route = "update-approval-wallet", !.body = b,
                                !.after = Answered, !.up = connected]
         IN  req' = [req EXCEPT ![p] =
                 IF k # ADMIN_KEY
                 THEN Reply(r, Json(401, FALSE, "Unauthorized"))
                 ELSE IF ~TruthySeq(a) \/ ~startsWith0x(a)
                 THEN Reply(r, Json(400, FALSE, "Valid wallet address required"))
                 ELSE IF ReadyStateNot1
                 THEN Reply([r EXCEPT !.checkedDb = "down"],
                            Json(500, FALSE, "Database not available"))
                 ELSE [r EXCEPT !.pc = "findOne",
                                !.checkedDb = IF variant = "railway" THEN "up" ELSE "no"]]
    /\ started' = started + 1
    /\ UNCHANGED <<env, connected, store, faults, flips>>

\* await Settings.findOne() returns; null makes the handler build a new document
UpdateWalletFindOne(p) ==
    /\ req[p].route = "update-approval-wallet" /\ req[p].pc = "findOne"
    /\ OpOk
    /\ req' = [req EXCEPT ![p].pc = "save",
                          ![p].doc = IF settings = <<>> THEN 0 ELSE 1]
    /\ UNCHANGED <<env, connected, store, started, faults, flips>>

\* a handler that stores a new document whatever it read
SettingsSavedAlwaysNew(doc, a) == Append(settings, SettingsDoc(a))

\* the Settings collection after settings.save(): the document read is
\* updated, a new document is inserted
SettingsSaved(doc, a) ==
    IF doc # 0
    THEN [settings EXCEPT ![doc].approvalWalletAddress = a]
    ELSE Append(settings, SettingsDoc(a))

\* await settings.save() returns
UpdateWalletSave(p) ==
    /\ req[p].route = "update-approval-wallet" /\ req[p].pc = "save"
    /\ OpOk
    /\ settings' = SettingsSaved(req[p].doc, req[p].body.newWalletAddress)
    /\ lastUpdate' = [address |-> req[p].body.newWalletAddress,
                      found |-> req[p].doc # 0]
    /\ req' = [req EXCEPT ![p] =
           Reply([req[p] EXCEPT !.wrote = @ + 1],
                 Json(200, TRUE, "Approval wallet updated successfully"))]
    /\ UNCHANGED <<variant, budget, boot, connected, users, claims, referrals,
                   started, faults, flips>>

\* an await rejects
UpdateWalletThrows(p) ==
    /\ req[p].route = "update-approval-wallet" /\ req[p].pc \in {"findOne", "save"}
    /\ OpFails
    /\ CountFault
    /\ req' = [req EXCEPT ![p] =
           Reply([req[p] EXCEPT !.threw = Failure],
                 Json(500, FALSE, "Internal server error"))]
    /\ UNCHANGED <<env, connected, store, started, flips>>


(***************************************************************************)
(* The read-only routes without a guard: GET /api/referrals/:walletAddress *)
(* and /api/claim-stats (src/server.js only), /api/approved-users and      *)
(* /api/user-stats (both variants).  Their awaited reads change nothing    *)
(* and every one of them rejects into the same catch block, so the reads   *)
(* of one handler are one step.                                            *)
(***************************************************************************)
QueryRoutes ==
    IF variant = "railway"
    THEN {"referrals", "claim-stats", "approved-users", "user-stats"}
    ELSE {"approved-users", "user-stats"}

\* the key that carries the payload of the route's answer
PayloadKey(route) ==
    CASE route = "referrals" -> "referrals"
      [] route = "approved-users" -> "users"
      [] OTHER -> "stats"

\* the number of elements of the payload, where it is a list
PayloadLen(route, w) ==
    CASE route = "referrals" ->
            Cardinality(Matching(referrals, LAMBDA d : d.referrer = toLowerCase(w)))
      [] route = "approved-users" ->
            Cardinality(Matching(users, LAMBDA u : u.approvalGiven))
      [] OTHER -> 0

\* an answer that reports the missing connection as an error
QueryOfflineError(route) == Json(500, FALSE, "Database not available")

\* the answer when readyState is not 1 (src/server.js)
QueryOffline(route) ==
    [NoResp EXCEPT !.status = 200, !.success = TRUE,
        !.keys = {"success", PayloadKey(route)}
                 \cup (IF route = "referrals" THEN {"message"} ELSE {}),
        !.message = IF route = "referrals" THEN "Database offline" ELSE ""]

\* the answer when the reads returned
QueryOk(route, w) ==
    [NoResp EXCEPT !.status = 200, !.success = TRUE,
        !.keys = {"success", PayloadKey(route)}
                 \cup (IF route = "referrals" THEN {"count"} ELSE {}),
        !.dataLen = PayloadLen(route, w)]

\* the catch block: an empty payload with success: true in src/server.js,
\* 500 in the Render variant
QueryCatch(route) ==
    IF variant = "railway"
    THEN [NoResp EXCEPT !.status = 200, !.success = TRUE,
             !.keys = {"success", PayloadKey(route)}
                      \cup (IF route = "referrals" THEN {"message"} ELSE {}),
             !.message = IF route = "referrals" THEN "Error fetching referrals" ELSE ""]
    ELSE Json(500, FALSE, "Internal server error")

QueryEntry(p) ==
    /\ CanStart(p)
    /\ \E route \in QueryRoutes :
         LET r == [NoReq EXCEPT !.route = route, !.after = Answered, !.up = connected,
                      !.body = [NoBody EXCEPT !.walletAddress =
                                   IF route = "referrals" THEN WalletA ELSE <<>>]]
         IN  req' = [req EXCEPT ![p] =
                 IF ReadyStateNot1
                 THEN Reply([r EXCEPT !.checkedDb = "down"], QueryOffline(route))
                 ELSE [r EXCEPT !.pc = "query",
                                !.checkedDb = IF variant = "railway" THEN "up" ELSE "no"]]
    /\ started' = started + 1
    /\ UNCHANGED <<env, connected, store, faults, flips>>

QueryReturns(p) ==
    /\ req[p].route \in QueryRoutes /\ req[p].pc = "query"
    /\ OpOk
    /\ req' = [req EXCEPT ![p] =
           Reply(req[p], QueryOk(req[p].route, req[p].body.walletAddress))]
    /\ UNCHANGED <<env, connected, store, started, faults, flips>>

QueryThrows(p) ==
    /\ req[p].route \in QueryRoutes /\ req[p].pc = "query"
    /\ OpFails
    /\ CountFault
    /\ req' = [req EXCEPT ![p] =
           Reply([req[p] EXCEPT !.threw = Failure], QueryCatch(req[p].route))]
    /\ UNCHANGED <<env, connected, store, started, flips>>

(***************************************************************************)
(* GET /health, /api/health and / : no database, one synchronous answer.   *)
(***************************************************************************)
StaticRoutes == IF variant = "railway" THEN {"health", "api-health", "root"}
                ELSE {"api-health", "root"}

StaticJson(route) ==
    CASE route = "health" ->
            [NoResp EXCEPT !.status = 200,
                           !.keys = {"status", "timestamp", "service", "environment"}]
      [] route = "api-health" ->
            [Json(200, TRUE, "Server is running")
                EXCEPT !.keys = @ \cup {"timestamp", "environment"}]
      [] OTHER ->
            [Json(200, TRUE, "SHIB Airdrop Backend API")
                EXCEPT !.keys = @ \cup {"version", "endpoints"}]

StaticEntry(p) ==
    /\ CanStart(p)
    /\ \E route \in StaticRoutes :
         req' = [req EXCEPT ![p] =
             Reply([NoReq EXCEPT !.route = route, !.after = Answered, !.up = connected], StaticJson(route))]
    /\ started' = started + 1
    /\ UNCHANGED <<env, connected, store, faults, flips>>

(***************************************************************************)
(* The admin routes (src/server.js only).                                  *)
(***************************************************************************)
\* a guard that only asks for some key
authenticateAdminAnyKey(headerKey, queryKey) == Truthy(OrElse(headerKey, queryKey))

\* authenticateAdmin: TRUE when it calls next()
authenticateAdmin(headerKey, queryKey) ==
    LET adminKey == OrElse(headerKey, queryKey)
    IN  ~(~Truthy(adminKey) \/ adminKey # ADMIN_KEY)

ListRoutes == {"admin-claims", "admin-approvals"}
AdminRoutes == ListRoutes \cup {"admin-stats", "admin-filter"}

\* const { page = 1, limit = 50 } = req.query
PageOf(b) == IF b.page = <<>> THEN DefaultPage ELSE b.page[1]
LimitOf(b) == IF b.limit = <<>> THEN DefaultLimit ELSE b.limit[1]

\* const skip = (page - 1) * limit
SkipOf(b) == (PageOf(b) - 1) * LimitOf(b)

\* the documents a listing's filter selects
ListMatches(route, b) ==
    IF route = "admin-claims"
    THEN Matching(claims, LAMBDA c :
             TruthySeq(b.search) => RegexMatchI(c.walletAddress, b.search))
    ELSE Matching(users, LAMBDA u :
             /\ u.approvalGiven
             /\ TruthySeq(b.search) => RegexMatchI(u.walletAddress, b.search)
             /\ Truthy(b.tier) => u.tier = b.tier)

\* .skip(skip).limit(n): what is left after skip documents, cut to n
\* documents; limit(0) is no limit
PageLen(total, skip, n) ==
    LET left == IF total > skip THEN total - skip ELSE 0
    IN  IF n = 0 \/ left <= n THEN left ELSE n

\* Math.ceil(total / limit), for limit > 0
CeilDiv(total, limit) == (total + limit - 1) \div limit

\* the listing's answer; Math.ceil(total / 0) is Infinity or NaN, which
\* JSON.stringify writes as null
ListJson(dataLen, total, limit) ==
    [NoResp EXCEPT !.status = 200, !.success = TRUE,
        !.keys = {"success", "data", "pagination"},
        !.dataLen = dataLen, !.total = total,
        !.pagesFinite = (limit # 0),
        !.pages = IF limit # 0 THEN CeilDiv(total, limit) ELSE 0]

\* the request arrives: authenticateAdmin, then the handler up to its first await
AdminEntry(p) ==
    /\ CanStart(p)
    /\ \E route \in AdminRoutes, k \in KeyInputs :
         LET r == [NoReq EXCEPT !.route = route, !.after = Answered, !.up = connected,
                      !.body = [NoBody EXCEPT !.headerKey = k[1], !.queryKey = k[2]]]
         IN  IF ~authenticateAdmin(k[1], k[2])
             THEN req' = [req EXCEPT ![p] =
                     Reply(r, Json(401, FALSE, "Unauthorized: Invalid admin key"))]
             ELSE IF route \in ListRoutes
             THEN \E q \in ListInputs :
                     req' = [req EXCEPT ![p] =
                         [r EXCEPT !.pc = "find", !.ranHandler = TRUE,
                                   !.body.page = q[1], !.body.limit = q[2],
                                   !.body.search = q[3]]]
             ELSE IF route = "admin-filter"
             THEN \E f \in FilterInputs :
                     req' = [req EXCEPT ![p] =
                         [r EXCEPT !.pc = "query", !.ranHandler = TRUE,
                                   !.body.minAmount = f[1], !.body.maxAmount = f[2]]]
             ELSE req' = [req EXCEPT ![p] = [r EXCEPT !.pc = "query", !.ranHandler = TRUE]]
    /\ started' = started + 1
    /\ UNCHANGED <<env, connected, store, faults, flips>>

\* await Model.find(filter).sort(...).skip(skip).limit(parseInt(limit)) returns;
\* the server rejects a negative skip
AdminListFind(p) ==
    /\ req[p].route \in ListRoutes /\ req[p].pc = "find"
    /\ OpOk
    /\ LET r == req[p]
           total == Cardinality(ListMatches(r.route, r.body))
       IN  req' = [req EXCEPT ![p] =
               IF SkipOf(r.body) < 0
               THEN Reply([r EXCEPT !.threw = "skip"],
                          Json(500, FALSE, "Internal server error"))
               ELSE [r EXCEPT !.pc = "count",
                              !.doc = PageLen(total, SkipOf(r.body), LimitOf(r.body))]]
    /\ UNCHANGED <<env, connected, store, started, faults, flips>>

\* await Model.countDocuments(filter) returns
AdminListCount(p) ==
    /\ req[p].route \in ListRoutes /\ req[p].pc = "count"
    /\ OpOk
    /\ LET r == req[p]
       IN  req' = [req EXCEPT ![p] =
               Reply(r, ListJson(r.doc, Cardinality(ListMatches(r.route, r.body)),
                                 LimitOf(r.body)))]
    /\ UNCHANGED <<env, connected, store, started, faults, flips>>

\* parseFloat of the text of a whole number
RECURSIVE parseFloat(_)
parseFloat(t) ==
    IF t = <<>> THEN 0 ELSE 10 * parseFloat(SubSeq(t, 1, Len(t) - 1)) + t[Len(t)]

\* Number.prototype.toString of a whole number: no leading zero
RECURSIVE NumberToString(_)
NumberToString(n) ==
    IF n < 10 THEN <<n>> ELSE Append(NumberToString(n \div 10), n % 10)

\* the characters of a stored usdtBalance, a String path
BalanceText(s) ==
    CASE s = "5" -> <<5>>
      [] s = "10" -> <<1, 0>>
      [] OTHER -> <<>>

\* the order in which the database compares two strings: character by
\* character, a prefix before its extensions
RECURSIVE StringLeq(_, _)
StringLeq(a, b) ==
    IF a = <<>> THEN TRUE
    ELSE IF b = <<>> THEN FALSE
    ELSE IF a[1] # b[1] THEN a[1] < b[1]
    ELSE StringLeq(Tail(a), Tail(b))

\* the filter of /api/admin/approvals/filter on a User document:
\* usdtBalance.$gte and $lte hold parseFloat(...).toString(), which the
\* database compares with the stored string; a document without a balance
\* matches no range
FilterMatches(u, b) ==
    /\ u.approvalGiven
    /\ TruthySeq(b.minAmount) =>
           /\ Truthy(u.usdtBalance)
           /\ StringLeq(NumberToString(parseFloat(b.minAmount)), BalanceText(u.usdtBalance))
    /\ TruthySeq(b.maxAmount) =>
           /\ Truthy(u.usdtBalance)
           /\ StringLeq(BalanceText(u.usdtBalance), NumberToString(parseFloat(b.maxAmount)))

\* User.find(filter)
FilterFound(b) == Matching(users, LAMBDA u : FilterMatches(u, b))

\* GET /api/admin/stats and /api/admin/approvals/filter: the reads return
AdminQueryReturns(p) ==
    /\ req[p].route \in AdminRoutes \ ListRoutes /\ req[p].pc = "query"
    /\ OpOk
    /\ req' = [req EXCEPT ![p] =
           Reply(req[p],
                 IF req[p].route = "admin-stats"
                 THEN [NoResp EXCEPT !.status = 200, !.success = TRUE,
                                     !.keys = {"success", "data"}]
                 ELSE [NoResp EXCEPT !.status = 200, !.success = TRUE,
                          !.keys = {"success", "data", "count"},
                          !.dataLen = Cardinality(FilterFound(req[p].body)),
                          !.data = {users[i].walletAddress :
                                       i \in FilterFound(req[p].body)}])]
    /\ UNCHANGED <<env, connected, store, started, faults, flips>>

\* an await of an admin handler rejects: every catch block answers 500
AdminThrows(p) ==
    /\ req[p].route \in AdminRoutes /\ req[p].pc \in {"find", "count", "query"}
    /\ OpFails
    /\ CountFault
    /\ req' = [req EXCEPT ![p] =
           Reply([req[p] EXCEPT !.threw = Failure],
                 Json(500, FALSE, "Internal server error"))]
    /\ UNCHANGED <<env, connected, store, started, flips>>


(***************************************************************************)
(* The state when the server starts listening.  The Railway variant        *)
(* listens with or without a connection; the Render variant exits unless   *)
(* it connected.  initializeSettings has stored the default Settings       *)
(* document, unless it was skipped (no connection) or failed (its catch    *)
(* only logs).                                                             *)
(***************************************************************************)
InitWith(n, variants) ==
    /\ variant \in variants
    /\ connected \in (IF variant = "railway" THEN BOOLEAN ELSE {TRUE})
    /\ users = <<>>
    /\ claims = <<>>
    /\ referrals = <<>>
    /\ settings \in {<<>>, <<SettingsDoc(DefaultWallet)>>}
    /\ req = [p \in Procs |-> NoReq]
    /\ budget = n
    /\ started = 0
    /\ faults = 0
    /\ flips = 0
    /\ lastUpdate = NoUpdate
    /\ boot = [NoBoot EXCEPT !.phase = "listening"]

Variants == {"railway", "render"}

Init == InitWith(MaxRequests, Variants)

\* the steps of the routes both variants have
SharedStep(p) ==
    \/ SaveApprovalEntry(p)
    \/ SaveApprovalFindOne(p)
    \/ SaveApprovalSave(p)
    \/ SaveApprovalThrows(p)
    \/ ApprovalWalletEntry(p)
    \/ ApprovalWalletFindOne(p)
    \/ ApprovalWalletThrows(p)
    \/ UpdateWalletEntry(p)
    \/ UpdateWalletFindOne(p)
    \/ UpdateWalletSave(p)
    \/ UpdateWalletThrows(p)
    \/ QueryEntry(p)
    \/ QueryReturns(p)
    \/ QueryThrows(p)
    \/ StaticEntry(p)

\* the steps of the routes only src/server.js has
RailwayStep(p) ==
    /\ variant = "railway"
    /\ \/ SaveClaimEntry(p)
       \/ SaveClaimFindOne(p)
       \/ SaveClaimSave(p)
       \/ SaveClaimUpdateUser(p)
       \/ SaveClaimUpsertRejected(p)
       \/ SaveClaimThrows(p)
       \/ ClaimStatusEntry(p)
       \/ ClaimStatusFindOne(p)
       \/ ClaimStatusThrows(p)
       \/ SaveReferralEntry(p)
       \/ SaveReferralSave(p)
       \/ SaveReferralUpdateUser(p)
       \/ SaveReferralThrows(p)
       \/ AdminEntry(p)
       \/ AdminListFind(p)
       \/ AdminListCount(p)
       \/ AdminQueryReturns(p)
       \/ AdminThrows(p)

Next ==
    \/ Disconnect
    \/ Reconnect
    \/ \E p \in Procs : SharedStep(p) \/ RailwayStep(p)

Spec == Init /\ [][Next]_vars


(***************************************************************************)
(* The approval route alone, with more requests.                           *)
(***************************************************************************)
InitApproval == InitWith(MaxWrites, Variants)

NextApproval ==
    \/ Disconnect
    \/ Reconnect
    \/ \E p \in Procs :
         \/ SaveApprovalEntry(p)
         \/ SaveApprovalFindOne(p)
         \/ SaveApprovalSave(p)
         \/ SaveApprovalThrows(p)

SpecApproval == InitApproval /\ [][NextApproval]_vars

(***************************************************************************)
(* The claim routes alone, and the settings routes alone, with more        *)
(* requests.                                                               *)
(***************************************************************************)
InitClaim == InitWith(MaxWrites, {"railway"})

NextClaim ==
    \/ Disconnect
    \/ Reconnect
    \/ \E p \in Procs :
         \/ SaveClaimEntry(p)
         \/ SaveClaimFindOne(p)
         \/ SaveClaimSave(p)
         \/ SaveClaimUpdateUser(p)
         \/ SaveClaimUpsertRejected(p)
         \/ SaveClaimThrows(p)
         \/ ClaimStatusEntry(p)
         \/ ClaimStatusFindOne(p)
         \/ ClaimStatusThrows(p)

SpecClaim == InitClaim /\ [][NextClaim]_vars

InitAdmin == InitWith(MaxWrites, {"railway"})

\* the admin routes, and the two routes that store what they list
NextAdmin ==
    \/ Disconnect
    \/ Reconnect
    \/ \E p \in Procs :
         \/ SaveClaimEntry(p)
         \/ SaveClaimFindOne(p)
         \/ SaveClaimSave(p)
         \/ SaveClaimUpdateUser(p)
         \/ SaveClaimUpsertRejected(p)
         \/ SaveClaimThrows(p)
         \/ SaveApprovalEntry(p)
         \/ SaveApprovalFindOne(p)
         \/ SaveApprovalSave(p)
         \/ SaveApprovalThrows(p)
         \/ AdminEntry(p)
         \/ AdminListFind(p)
         \/ AdminListCount(p)
         \/ AdminQueryReturns(p)
         \/ AdminThrows(p)

SpecAdmin == InitAdmin /\ [][NextAdmin]_vars

(***************************************************************************)
(* The routes that write User records, with more requests.                 *)
(***************************************************************************)
InitReferral == InitWith(MaxWrites, {"railway"})

NextReferral ==
    \/ Disconnect
    \/ Reconnect
    \/ \E p \in Procs :
         \/ SaveReferralEntry(p)
         \/ SaveReferralSave(p)
         \/ SaveReferralUpdateUser(p)
         \/ SaveReferralThrows(p)
         \/ SaveApprovalEntry(p)
         \/ SaveApprovalFindOne(p)
         \/ SaveApprovalSave(p)
         \/ SaveApprovalThrows(p)
         \/ SaveClaimEntry(p)
         \/ SaveClaimFindOne(p)
         \/ SaveClaimSave(p)
         \/ SaveClaimUpdateUser(p)
         \/ SaveClaimUpsertRejected(p)
         \/ SaveClaimThrows(p)

SpecReferral == InitReferral /\ [][NextReferral]_vars

InitSettings == InitWith(MaxUpdates, Variants)

NextSettings ==
    \/ Disconnect
    \/ Reconnect
    \/ \E p \in Procs :
         \/ ApprovalWalletEntry(p)
         \/ ApprovalWalletFindOne(p)
         \/ ApprovalWalletThrows(p)
         \/ UpdateWalletEntry(p)
         \/ UpdateWalletFindOne(p)
         \/ UpdateWalletSave(p)
         \/ UpdateWalletThrows(p)

SpecSettings == InitSettings /\ [][NextSettings]_vars

(***************************************************************************)
(* The start of the process: the top-level statements of the module run in *)
(* source order, the last one calls startServer.  A const binding is       *)
(* initialized when its declaration runs; a statement that reads it before *)
(* throws a ReferenceError, which nothing catches at the top level.        *)
(***************************************************************************)
Const(line, name, uses) ==
    [line |-> line, declares |-> {name}, uses |-> uses, routes |-> {}, start |-> FALSE]

Stmt(line, uses) ==
    [line |-> line, declares |-> {}, uses |-> uses, routes |-> {}, start |-> FALSE]

\* app.get / app.post: the arguments are evaluated when the statement runs,
\* the handler's body is not
Route(line, route, uses) ==
    [line |-> line, declares |-> {}, uses |-> uses, routes |-> {route}, start |-> FALSE]

\* startServer();
Start(line) ==
    [line |-> line, declares |-> {}, uses |-> {"startServer"}, routes |-> {}, start |-> TRUE]

\* function declarations are hoisted: bound before the first statement
Hoisted == {"initializeSettings"}

\* the top-level statements of src/server.js
RailwayStatements ==
    << Const(1, "express", {}), Const(2, "cors", {}), Const(3, "mongoose", {}),
       Stmt(4, {}), Const(6, "app", {"express"}), Const(9, "corsOptions", {}),
       Stmt(24, {"app", "cors", "corsOptions"}), Stmt(25, {"app", "express"}),
       Const(28, "MONGODB_URI", {}), Const(29, "ADMIN_KEY", {}), Const(30, "PORT", {}),
       Const(33, "connectDB", {}),
       Const(56, "userSchema", {"mongoose"}), Const(67, "User", {"mongoose", "userSchema"}),
       Const(70, "claimSchema", {"mongoose"}), Const(81, "Claim", {"mongoose", "claimSchema"}),
       Const(84, "referralSchema", {"mongoose"}),
       Const(92, "Referral", {"mongoose", "referralSchema"}),
       Const(95, "settingsSchema", {"mongoose"}),
       Const(100, "Settings", {"mongoose", "settingsSchema"}),
       Route(121, "health", {"app"}), Route(131, "api-health", {"app"}),
       Stmt(142, {"app", "cors", "corsOptions"}),
       Route(149, "save-claim", {"app"}), Route(227, "claim-status", {"app"}),
       Route(265, "admin-claims", {"app", "authenticateAdmin"}),
       Route(302, "claim-stats", {"app"}), Route(367, "save-referral", {"app"}),
       Route(413, "referrals", {"app"}),
       Const(455, "authenticateAdmin", {}),
       Route(468, "admin-approvals", {"app", "authenticateAdmin"}),
       Route(511, "admin-stats", {"app", "authenticateAdmin"}),
       Route(574, "admin-filter", {"app", "authenticateAdmin"}),
       Route(632, "save-approval", {"app"}), Route(692, "approval-wallet", {"app"}),
       Route(717, "update-approval-wallet", {"app"}),
       Route(752, "approved-users", {"app"}), Route(771, "user-stats", {"app"}),
       Route(817, "root", {"app"}),
       Const(847, "startServer", {}), Start(891) >>

\* the top-level statements of src/unnamed/part_000
RenderStatements ==
    << Const(1, "fs", {}), Const(2, "path", {}), Stmt(10, {"fs"}),
       Const(18, "packagePath", {}), Stmt(19, {"path", "packagePath"}),
       Stmt(20, {"fs", "packagePath"}), Stmt(23, {"fs"}),
       Const(30, "express", {}), Const(31, "cors", {}), Const(32, "mongoose", {}),
       Const(33, "app", {"express"}),
       Stmt(36, {"app", "cors"}), Stmt(37, {"app", "express"}),
       Const(40, "MONGODB_URI", {}), Const(41, "ADMIN_KEY", {}), Const(42, "PORT", {}),
       Const(45, "connectDB", {}),
       Const(65, "userSchema", {"mongoose"}), Const(76, "User", {"mongoose", "userSchema"}),
       Const(79, "settingsSchema", {"mongoose"}),
       Const(84, "Settings", {"mongoose", "settingsSchema"}),
       Route(103, "api-health", {"app"}), Route(113, "save-approval", {"app"}),
       Route(151, "approval-wallet", {"app"}),
       Route(165, "update-approval-wallet", {"app"}),
       Route(195, "approved-users", {"app"}), Route(209, "user-stats", {"app"}),
       Route(236, "root", {"app"}),
       Const(252, "startServer", {}), Start(268) >>

Statements == IF variant = "railway" THEN RailwayStatements ELSE RenderStatements

\* the routes the module registers
RoutesOf(statements) == UNION {statements[i].routes : i \in DOMAIN statements}

\* the statement about to run
NextStatement == Statements[boot.next]

\* every binding the statement reads is initialized
CanRun(st) == st.uses \subseteq boot.declared

\* the next top-level statement runs; the last one calls startServer, which
\* runs up to await connectDB()
LoadStatement ==
    /\ boot.phase = "loading"
    /\ CanRun(NextStatement)
    /\ boot' = [boot EXCEPT !.next = @ + 1,
                            !.declared = @ \cup NextStatement.declares,
                            !.routes = @ \cup NextStatement.routes,
                            !.phase = IF NextStatement.start THEN "connecting"
                                      ELSE "loading"]
    /\ UNCHANGED <<variant, budget, lastUpdate, connected, store, req, started, faults, flips>>

\* the next top-level statement reads a binding in its temporal dead zone:
\* the ReferenceError ends the process
LoadThrows ==
    /\ boot.phase = "loading"
    /\ ~CanRun(NextStatement)
    /\ boot' = [boot EXCEPT !.phase = "crashed"]
    /\ UNCHANGED <<variant, budget, lastUpdate, connected, store, req, started, faults, flips>>

\* connectDB: mongoose.connect resolves
ConnectDBConnects ==
    /\ boot.phase = "connecting"
    /\ boot.uri
    /\ connected' = TRUE
    /\ boot' = [boot EXCEPT !.phase = "initFind"]
    /\ UNCHANGED <<variant, budget, lastUpdate, store, req, started, faults, flips>>

\* connectDB: no MONGODB_URI, or mongoose.connect rejects; src/server.js
\* returns false and goes on without initializeSettings, the Render variant
\* exits
ConnectDBFails ==
    /\ boot.phase = "connecting"
    /\ connected' = FALSE
    /\ boot' = [boot EXCEPT !.phase = IF variant = "railway" THEN "listen" ELSE "exited"]
    /\ UNCHANGED <<variant, budget, lastUpdate, store, req, started, faults, flips>>

\* initializeSettings: await Settings.findOne() returns
InitializeSettingsFindOne ==
    /\ boot.phase = "initFind"
    /\ OpOk
    /\ boot' = [boot EXCEPT !.phase = IF settings = <<>> THEN "initSave" ELSE "listen"]
    /\ UNCHANGED <<variant, budget, lastUpdate, connected, store, req, started, faults, flips>>

\* initializeSettings: await defaultSettings.save() returns
InitializeSettingsSave ==
    /\ boot.phase = "initSave"
    /\ OpOk
    /\ settings' = Append(settings, SettingsDoc(DefaultWallet))
    /\ boot' = [boot EXCEPT !.phase = "listen",
                            !.logged = @ \cup {"Default settings initialized"}]
    /\ UNCHANGED <<variant, budget, lastUpdate, connected, users, claims, referrals,
                   req, started, faults, flips>>

\* initializeSettings: an await rejects, the catch block logs
InitializeSettingsThrows ==
    /\ boot.phase \in {"initFind", "initSave"}
    /\ OpFails
    /\ CountFault
    /\ boot' = [boot EXCEPT !.phase = "listen"]
    /\ UNCHANGED <<variant, budget, lastUpdate, connected, store, req, started, flips>>

\* app.listen(PORT, '0.0.0.0', ...)
Listen ==
    /\ boot.phase = "listen"
    /\ boot' = [boot EXCEPT !.phase = "listening"]
    /\ UNCHANGED <<variant, budget, lastUpdate, connected, store, req, started, faults, flips>>

InitStartup ==
    /\ variant \in Variants
    /\ connected = FALSE
    /\ users = <<>>
    /\ claims = <<>>
    /\ referrals = <<>>
    /\ settings \in {<<>>, <<SettingsDoc(DefaultWallet)>>}
    /\ req = [p \in Procs |-> NoReq]
    /\ budget = 0
    /\ started = 0
    /\ faults = 0
    /\ flips = 0
    /\ lastUpdate = NoUpdate
    /\ boot \in {[NoBoot EXCEPT !.uri = u, !.declared = Hoisted] : u \in BOOLEAN}

NextStartup ==
    \/ LoadStatement
    \/ LoadThrows
    \/ ConnectDBConnects
    \/ ConnectDBFails
    \/ InitializeSettingsFindOne
    \/ InitializeSettingsSave
    \/ InitializeSettingsThrows
    \/ Listen

\* the process keeps running while it has a step to take
SpecStartup == InitStartup /\ [][NextStartup]_vars /\ WF_vars(NextStartup)

(***************************************************************************)
(* Properties.                                                             *)
(***************************************************************************)
Done(p, route) == req[p].route = route /\ req[p].pc = "done"

\* the User documents of one address
UsersOf(w) == Matching(users, LAMBDA u : u.walletAddress = w)

\* request p is a save-approval call that was answered with a success while
\* the database was connected
ApprovalSucceeded(p) ==
    /\ Done(p, "save-approval")
    /\ req[p].resp.status = 200 /\ req[p].resp.success
    /\ ~req[p].resp.offline

\* p is the second of two successful save-approval calls for one address:
\* q was answered before p arrived
SecondApproval(p, q) ==
    /\ ApprovalSucceeded(p) /\ ApprovalSucceeded(q)
    /\ q \in req[p].after
    /\ req[q].body.walletAddress = req[p].body.walletAddress

\* C1 as stated: after two successful save-approval calls for the same
\* wallet address there is exactly one User record for it, and the second
\* call left it with the usdtBalance, airdropAmount and tier it sent and
\* with approvalGiven = true.
C1_LatestValues ==
    \A p, q \in Procs :
        SecondApproval(p, q) =>
            /\ Cardinality(UsersOf(req[p].body.walletAddress)) = 1
            /\ req[p].post.usdtBalance = req[p].body.usdtBalance
            /\ req[p].post.airdropAmount = req[p].body.airdropAmount
            /\ req[p].post.tier = req[p].body.tier
            /\ req[p].post.approvalGiven

\* C1 amended: after two successful save-approval calls for the same wallet
\* address, the second served without another request changing the record
\* meanwhile, there is exactly one User record for it; the second call left
\* each of usdtBalance, airdropAmount and tier at the value it sent when
\* that value is not empty and at the record's earlier value when it is,
\* and approvalGiven = true.
C1_LatestNonEmptyValues ==
    \A p, q \in Procs :
        SecondApproval(p, q) /\ req[p].read = req[p].pre =>
            /\ Cardinality(UsersOf(req[p].body.walletAddress)) = 1
            /\ req[p].post.usdtBalance = OrElse(req[p].body.usdtBalance, req[p].pre.usdtBalance)
            /\ req[p].post.airdropAmount =
                   OrElse(req[p].body.airdropAmount, req[p].pre.airdropAmount)
            /\ req[p].post.tier = OrElse(req[p].body.tier, req[p].pre.tier)
            /\ req[p].post.approvalGiven
            /\ req[p].post.walletAddress = req[p].body.walletAddress

\* C1 witness: a second successful call that sent an empty tier and a new
\* airdropAmount has updated the record of the first
C1_Witness ==
    \E p, q \in Procs :
        /\ SecondApproval(p, q)
        /\ req[p].read = req[p].pre
        /\ req[p].body.tier = "" /\ req[p].pre.tier = "bronze"
        /\ req[p].post.airdropAmount = "100" /\ req[p].pre.airdropAmount = "50"
        /\ req[p].wrote = 1


\* the Claim documents stored for the wallet of address w
ClaimsOf(w) == Matching(claims, LAMBDA c : c.walletAddress = toLowerCase(w))

\* p is a save-claim call for the address of the save-claim call q, which
\* was answered, having stored its claim, before p arrived; p found the
\* database connected and its lookup returned
SecondClaim(p, q) ==
    /\ Done(p, "save-claim") /\ Done(q, "save-claim")
    /\ q \in req[p].after
    /\ req[q].body.walletAddress = req[p].body.walletAddress
    /\ req[q].wrote >= 1
    /\ req[p].checkedDb = "up" /\ req[p].threw = "none"

\* C2: when save-claim is called twice in sequence for the same wallet with
\* the database connected, the second call is answered success: true with
\* alreadyClaimed: true and stores no claim.
C2_SecondClaimIsNoOp ==
    \A p, q \in Procs :
        SecondClaim(p, q) =>
            /\ req[p].resp.status = 200 /\ req[p].resp.success
            /\ req[p].resp.alreadyClaimed
            /\ req[p].wrote = 0

\* C2 witness: the second call for an address written in capitals was
\* answered while the one claim of the first is stored
C2_Witness ==
    \E p, q \in Procs :
        /\ SecondClaim(p, q)
        /\ req[p].body.walletAddress = WalletA
        /\ req[p].resp.alreadyClaimed
        /\ Cardinality(ClaimsOf(WalletA)) = 1

\* C3: in every reachable state the Claim collection holds at most one
\* record per wallet address.
C3_OneClaimPerWallet ==
    \A i, j \in DOMAIN claims :
        claims[i].walletAddress = claims[j].walletAddress => i = j


\* request p went to an admin route
AdminRequest(p) == req[p].route \in AdminRoutes

\* C4: a request to an admin route that carries the exact key neither in the
\* admin-key header nor in the adminKey parameter is answered 401 with
\* success: false and its handler never runs; only a request carrying the
\* exact key reaches the handler.
C4_AdminGuard ==
    \A p \in Procs :
        AdminRequest(p) =>
            /\ (req[p].body.headerKey # ADMIN_KEY /\ req[p].body.queryKey # ADMIN_KEY) =>
                   /\ req[p].pc = "done"
                   /\ req[p].resp.status = 401 /\ ~req[p].resp.success
                   /\ "success" \in req[p].resp.keys
                   /\ ~req[p].ranHandler
            /\ req[p].ranHandler =>
                   (req[p].body.headerKey = ADMIN_KEY \/ req[p].body.queryKey = ADMIN_KEY)
            /\ req[p].resp.status = 401 => ~req[p].ranHandler

\* C4 witness: a request with a wrong key was answered 401 before its
\* handler ran
C4_Witness ==
    \E p \in Procs :
        /\ AdminRequest(p) /\ req[p].pc = "done"
        /\ req[p].body.headerKey = "wrong" /\ req[p].body.queryKey = ""
        /\ req[p].resp.status = 401 /\ ~req[p].ranHandler

\* C5: a listing of /api/admin/claims or /api/admin/approvals returns at
\* most limit elements, and pagination.pages = ceil(total / limit).
C5_Pagination ==
    \A p \in Procs :
        (req[p].route \in ListRoutes /\ req[p].pc = "done" /\ req[p].resp.status = 200) =>
            /\ req[p].resp.dataLen <= LimitOf(req[p].body)
            /\ req[p].resp.pagesFinite
            /\ LimitOf(req[p].body) > 0 =>
                   req[p].resp.pages = CeilDiv(req[p].resp.total, LimitOf(req[p].body))

\* request p is a GET /api/approval-wallet that arrived after an update had
\* succeeded, and no other update succeeded until it read the setting
LaterRead(p) ==
    /\ Done(p, "approval-wallet")
    /\ req[p].seen.address # <<>>
    /\ req[p].expect = req[p].seen

\* request p was answered from what the database returned
ServedFromDb(p) == req[p].checkedDb # "down" /\ req[p].threw = "none"

\* C6 as stated: after update-approval-wallet succeeds with A, every later
\* GET /api/approval-wallet returns approvalWalletAddress = A until another
\* update succeeds.
C6_ReadsLatest ==
    \A p \in Procs :
        LaterRead(p) =>
            /\ req[p].resp.status = 200
            /\ req[p].resp.address = req[p].expect.address

\* C6, for the reads that the database answers: after update-approval-wallet
\* succeeds with A, a later GET /api/approval-wallet whose Settings.findOne
\* returns answers approvalWalletAddress = A until another update succeeds,
\* from any prior state of the Settings collection.
C6_ReadsLatestFromDb ==
    \A p \in Procs :
        (LaterRead(p) /\ ServedFromDb(p)) =>
            /\ req[p].resp.status = 200 /\ req[p].resp.success
            /\ req[p].resp.address = req[p].expect.address

\* what the code keeps of it: the same, when the update modified the
\* Settings document it had found, or created the only one
ReadsLatestOfSameDocument ==
    \A p \in Procs :
        (/\ LaterRead(p)
         /\ ServedFromDb(p)
         /\ req[p].expect.found \/ Len(settings) = 1) =>
            /\ req[p].resp.status = 200 /\ req[p].resp.success
            /\ req[p].resp.address = req[p].expect.address

\* a later GET returned the address an update had stored in the document
\* that initializeSettings created
ReadLatestOfSameDocument ==
    \E p \in Procs :
        /\ LaterRead(p) /\ ServedFromDb(p)
        /\ req[p].expect.found
        /\ req[p].resp.address = WalletA


\* the routes of src/server.js that store something on a plain request
SaveRoutes == {"save-approval", "save-claim", "save-referral"}

\* the required address fields of the request are not all there
MissingAddress(p) ==
    IF req[p].route = "save-referral"
    THEN req[p].body.referrer = <<>> \/ req[p].body.referred = <<>>
    ELSE req[p].body.walletAddress = <<>>

\* C7: in src/server.js a save-approval, save-claim or save-referral request
\* that arrives while the database is not connected is answered success:
\* true with offline: true and writes nothing; a request without its
\* required address is answered 400 whether or not the database is
\* connected.
C7_OfflineSaves ==
    \A p \in Procs :
        (variant = "railway" /\ req[p].route \in SaveRoutes) =>
            /\ MissingAddress(p) =>
                   /\ req[p].pc = "done"
                   /\ req[p].resp.status = 400 /\ ~req[p].resp.success
                   /\ req[p].wrote = 0
            /\ (~MissingAddress(p) /\ ~req[p].up) =>
                   /\ req[p].pc = "done"
                   /\ req[p].resp.status = 200 /\ req[p].resp.success
                   /\ req[p].resp.offline /\ "offline" \in req[p].resp.keys
                   /\ req[p].wrote = 0

\* C7 witness: a save-referral that arrived without a connection was
\* answered in offline mode, and the store is as it was
C7_Witness ==
    \E p \in Procs :
        /\ variant = "railway" /\ Done(p, "save-referral")
        /\ ~req[p].up /\ ~MissingAddress(p)
        /\ req[p].resp.offline
        /\ referrals = <<>> /\ users = <<>>

\* request p met a database that was not available: at its readyState
\* check, or at an await that timed out for lack of a connection
DbUnavailable(p) == req[p].checkedDb = "down" \/ req[p].threw = "unavailable"

\* a success response
Success(p) ==
    /\ req[p].resp.status = 200
    /\ "success" \in req[p].resp.keys => req[p].resp.success

\* an error response
Error500(p) ==
    /\ req[p].resp.status = 500
    /\ "success" \in req[p].resp.keys /\ ~req[p].resp.success

\* C8 as stated: on every route of src/server.js a database-unavailable
\* condition is converted into a success response and never reaches the
\* client as an error status, the admin routes and update-approval-wallet
\* included.
C8_UnavailableIsSuccess ==
    \A p \in Procs :
        (variant = "railway" /\ req[p].pc = "done" /\ DbUnavailable(p)) => Success(p)

\* the routes of src/server.js that check readyState and answer a success
\* when it is not 1
GuardedRoutes ==
    SaveRoutes \cup {"claim-status", "claim-stats", "referrals", "approval-wallet",
                     "approved-users", "user-stats"}

\* C8 amended: on the routes of src/server.js that check readyState, other
\* than update-approval-wallet, a request that arrives while the database
\* is not connected is answered at once, with a success response unless it
\* is rejected as invalid; update-approval-wallet answers an authorized,
\* valid request 500 then, and the admin routes, which make no check,
\* answer 500 when their query fails for lack of a connection.
C8_UnavailableByRoute ==
    \A p \in Procs :
        variant = "railway" =>
            /\ (req[p].route \in GuardedRoutes /\ ~req[p].up) =>
                   /\ req[p].pc = "done"
                   /\ req[p].resp.status = 400 \/ (req[p].checkedDb = "down" /\ Success(p))
            /\ (req[p].route = "update-approval-wallet" /\ ~req[p].up) =>
                   /\ req[p].pc = "done"
                   /\ req[p].resp.status \in {400, 401}
                         \/ (req[p].checkedDb = "down" /\ Error500(p))
            /\ AdminRequest(p) =>
                   /\ req[p].checkedDb = "no"
                   /\ (req[p].pc = "done" /\ req[p].threw = "unavailable") => Error500(p)

\* C8 witness: user-stats arrived without a connection and was answered
\* with a success
C8_Witness ==
    \E p \in Procs :
        /\ variant = "railway" /\ Done(p, "user-stats")
        /\ ~req[p].up /\ req[p].checkedDb = "down"
        /\ Success(p) /\ req[p].resp.success

\* an await of request p rejected with something other than a duplicate key
Threw(p) == req[p].threw \notin {"none", "E11000"}

SoftRoutes ==
    {"claim-status", "claim-stats", "referrals", "approval-wallet",
     "approved-users", "user-stats"}

C10_DuplicateKeyIsSuccess ==
    \A p \in Procs :
        (/\ req[p].route \in {"save-approval", "save-claim"}
         /\ req[p].pc = "done"
         /\ req[p].threw = "E11000") =>
            /\ Success(p) /\ req[p].resp.success
            /\ Cardinality(UsersOf(IF req[p].route = "save-claim"
                                    THEN toLowerCase(req[p].body.walletAddress)
                                    ELSE req[p].body.walletAddress)) = 1


\* the response of request p has the envelope { success, message | data }:
\* a success field, boolean in every response of the code that has one,
\* and at least one more field
Envelope(p) ==
    /\ "success" \in req[p].resp.keys
    /\ req[p].resp.success \in BOOLEAN
    /\ req[p].resp.keys \ {"success"} # {}

\* C11 as stated: every response of every route, on every path, is a JSON
\* object with a boolean success field and a message or data payload.
C11_EveryResponseIsEnvelope ==
    \A p \in Procs : req[p].pc = "done" => Envelope(p)

\* C11 amended: every response of every route other than GET /health of
\* src/server.js, on every path, is a JSON object with a boolean success
\* field and a message or data payload; GET /health answers status 200 with
\* status, timestamp, service and environment, and no success field.
C11_EnvelopeButHealth ==
    \A p \in Procs :
        req[p].pc = "done" =>
            IF req[p].route = "health"
            THEN /\ req[p].resp.status = 200
                 /\ req[p].resp.keys = {"status", "timestamp", "service", "environment"}
            ELSE /\ Envelope(p)
                 /\ req[p].resp.status \in {200, 400, 401, 500}
                 /\ req[p].resp.status # 200 => ~req[p].resp.success

\* C11 witness: a request whose database operation failed was answered 500
\* with success and message
C11_Witness ==
    \E p \in Procs :
        /\ req[p].pc = "done" /\ req[p].threw = "error"
        /\ req[p].resp.status = 500
        /\ req[p].resp.keys = {"success", "message"}

\* no request is being served
Quiescent == \A p \in Procs : ~Busy(p)

\* the Referral documents of one referrer
ReferralsOf(w) == Matching(referrals, LAMBDA d : d.referrer = w)

\* request p is a save-referral call that the database served with a success
ReferralSucceeded(p) ==
    /\ Done(p, "save-referral")
    /\ req[p].resp.status = 200 /\ req[p].resp.success
    /\ ~req[p].resp.offline

\* C12: each save-referral call that succeeds has inserted one Referral
\* record and added 1 to the referrer's referralCount, and once every
\* request of a sequence of save-referral, save-approval and save-claim
\* calls is answered, the referralCount of the referrer's User record (the
\* one of the lower-cased address) is the number of Referral records of that
\* referrer.
C12_ReferralCountMatches ==
    /\ \A p \in Procs : ReferralSucceeded(p) => req[p].wrote = 2
    /\ Quiescent =>
           \A w \in {Walleta} :
               /\ ReferralsOf(w) # {} => UsersOf(w) # {}
               /\ \A i \in UsersOf(w) :
                      users[i].referralCount = Cardinality(ReferralsOf(w))

\* the routes both variants have
SharedRoutes ==
    {"save-approval", "approval-wallet", "update-approval-wallet",
     "approved-users", "user-stats"}

\* the database did not serve request p: an await rejected, or the
\* connection was down when the request needed it
NotServed(p) == req[p].threw # "none" \/ req[p].checkedDb = "down"

\* the status and the success field with which the handlers of
\* src/unnamed/part_000 answer request p, given what the database did for it
RenderAnswer(p) ==
    LET b == req[p].body
        rejected ==
            CASE req[p].route = "save-approval" -> ~TruthySeq(b.walletAddress)
              [] req[p].route = "update-approval-wallet" ->
                     b.adminKey # ADMIN_KEY \/ ~TruthySeq(b.newWalletAddress)
                         \/ ~startsWith0x(b.newWalletAddress)
              [] OTHER -> FALSE
        status ==
            IF req[p].route = "update-approval-wallet" /\ b.adminKey # ADMIN_KEY THEN 401
            ELSE IF rejected THEN 400
            ELSE IF NotServed(p) THEN 500
            ELSE 200
    IN  <<status, status = 200>>

\* C13: on the routes both variants have, src/server.js and
\* src/unnamed/part_000 answer the same request, given the same database
\* outcomes, with the same status and success field.
C13_VariantsAgree ==
    \A p \in Procs :
        (req[p].pc = "done" /\ req[p].route \in SharedRoutes) =>
            <<req[p].resp.status, req[p].resp.success>> = RenderAnswer(p)

\* RenderAnswer is what the Render variant answers
RenderAnswerIsRender == variant = "render" => C13_VariantsAgree

\* the User documents of one wallet, whatever the letter case of the address
UsersOfWallet(w) ==
    Matching(users, LAMBDA u : toLowerCase(u.walletAddress) = toLowerCase(w))

\* C14: after any sequence of save-approval, save-claim and save-referral
\* calls the User collection holds at most one record per wallet, addresses
\* that differ only in letter case being the same wallet.
C14_OneUserPerWallet ==
    \A w \in {WalletA, WalletB} : Cardinality(UsersOfWallet(w)) <= 1

\* the store is as it was when request p was served: every earlier request
\* had been answered when p arrived, and none arrived since
StoreAsServed(p) == started = p /\ \A q \in 1..(p - 1) : q \in req[p].after

\* the two texts compared as numbers
NumericLeq(a, b) == parseFloat(a) <= parseFloat(b)

\* the balance of User document u, as a number, lies in [minAmount, maxAmount]
InRange(u, b) ==
    /\ u.approvalGiven
    /\ TruthySeq(b.minAmount) =>
           /\ Truthy(u.usdtBalance)
           /\ NumericLeq(b.minAmount, BalanceText(u.usdtBalance))
    /\ TruthySeq(b.maxAmount) =>
           /\ Truthy(u.usdtBalance)
           /\ NumericLeq(BalanceText(u.usdtBalance), b.maxAmount)

\* C15: GET /api/admin/approvals/filter with minAmount and/or maxAmount
\* returns exactly the approved users whose USDT balance, compared as a
\* number, lies in [minAmount, maxAmount].
C15_FilterIsNumeric ==
    \A p \in Procs :
        (/\ Done(p, "admin-filter")
         /\ req[p].resp.status = 200
         /\ StoreAsServed(p)) =>
            req[p].resp.data =
                {users[i].walletAddress :
                    i \in Matching(users, LAMBDA u : InRange(u, req[p].body))}

\* C16: once save-claim has inserted the new Claim record, a failure of the
\* User.findOneAndUpdate that follows does not change the outcome: the
\* request is answered with success: true.
C16_UserUpdateIsBestEffort ==
    \A p \in Procs :
        (Done(p, "save-claim") /\ req[p].wrote >= 1) =>
            req[p].resp.status = 200 /\ req[p].resp.success

\* C17: the Settings collection holds at most one record in every reachable
\* state, concurrent update-approval-wallet requests against an empty
\* collection included.
C17_SettingsSingleton == Len(settings) <= 1

\* the routes of src/server.js
RailwayRoutes == RoutesOf(RailwayStatements)

\* C18: on process start src/server.js always eventually reaches the
\* listening state, with or without a database connection: every
\* module-level route registration completes and startServer is called.
C18_EventuallyListening ==
    (variant = "railway") =>
        <>(boot.phase = "listening" /\ boot.routes = RailwayRoutes)

\* the routes served by app.get
GetRoutes ==
    {"health", "api-health", "root", "claim-status", "claim-stats", "referrals",
     "approval-wallet", "approved-users", "user-stats"} \cup AdminRoutes

\* the status with which request p is to be rejected, 0 when it is valid
Rejection(p) ==
    LET b == req[p].body
    IN  CASE req[p].route \in SaveRoutes -> IF MissingAddress(p) THEN 400 ELSE 0
          [] req[p].route = "update-approval-wallet" ->
                 IF b.adminKey # ADMIN_KEY THEN 401
                 ELSE IF b.newWalletAddress = <<>> \/ ~startsWith0x(b.newWalletAddress)
                 THEN 400 ELSE 0
          [] req[p].route \in AdminRoutes ->
                 IF b.headerKey # ADMIN_KEY /\ b.queryKey # ADMIN_KEY THEN 401 ELSE 0
          [] OTHER -> 0

\* a step of a request that is a GET or has been rejected with 400 or 401
\* leaves the four collections as they are
ReadOrRejectedStep ==
    \A p \in Procs :
        (/\ req'[p] # req[p]
         /\ req'[p].route \in GetRoutes \/ req'[p].resp.status \in {400, 401}) =>
            store' = store

\* C19: a request that is to be rejected (missing wallet address, missing
\* referrer or referred, wrong adminKey, address not starting with '0x') is
\* answered 400 or 401, the adminKey check of update-approval-wallet coming
\* first, and neither such a request nor any GET request changes the User,
\* Claim, Referral and Settings collections.
C19_ReadsAndRejectionsChangeNothing ==
    /\ [](\A p \in Procs :
             Rejection(p) # 0 =>
                 /\ req[p].pc = "done"
                 /\ req[p].resp.status = Rejection(p)
                 /\ req[p].wrote = 0)
    /\ [][ReadOrRejectedStep]_vars

\* C19 witness: an update-approval-wallet request with a wrong adminKey and
\* a valid address was answered 401, whatever the connection state, and
\* Settings holds no such address
C19_Witness ==
    \E p \in Procs :
        /\ Done(p, "update-approval-wallet")
        /\ req[p].body.adminKey = "wrong" /\ req[p].body.newWalletAddress = WalletA
        /\ req[p].resp.status = 401
        /\ \A i \in DOMAIN settings : settings[i].approvalWalletAddress # WalletA

\* the spellings of one wallet address
Spellings == {WalletA, Walleta}

\* p is a claim-status or save-claim request for the wallet of the save-claim
\* call q, in any spelling; q was answered with a claimId before p arrived
LaterLookup(p, q) ==
    /\ Done(q, "save-claim") /\ "claimId" \in req[q].resp.keys
    /\ req[p].route \in {"claim-status", "save-claim"} /\ req[p].pc = "done"
    /\ q \in req[p].after
    /\ req[q].body.walletAddress \in Spellings
    /\ req[p].body.walletAddress \in Spellings

\* the lookup of request p found a claim
FoundClaim(p) ==
    /\ req[p].resp.status = 200 /\ req[p].resp.success
    /\ IF req[p].route = "claim-status"
       THEN req[p].resp.hasClaimed
       ELSE req[p].resp.alreadyClaimed /\ req[p].wrote = 0

=============================================================================
